---- MODULE Spec2Model ----
(***************************************************************************)
(* Model of the watsonx.ai Model Gateway client (gateway.py, policies.py)  *)
(* and of the dashboard built beside it (app.py).  The gateway client:     *)
(* construction of Gateway, the blocking and non-blocking operations of    *)
(* chat / text completions and embeddings, the tenant configuration calls  *)
(* and the Policies operations.  Every operation builds a request,         *)
(* dispatches it through the client's HTTP transport and hands the         *)
(* response to WMLResource._handle_response.                               *)
(***************************************************************************)
EXTENDS Integers, Sequences, FiniteSets, TLC

VARIABLES client, gateway, initArgs, initTrace, handles, pending, last, nCalls,
          nExchanges

\* the dashboard (app.py): the chat session, the last call of a helper
\* function, the last run of the summarizer page and the feedback store
VARIABLES session_messages, page, loadedModel, screen, lastEvent, fnCall, docRun,
          mongo, store, fbRun

gatewayVars == <<client, gateway, initArgs, initTrace, handles, pending, last, nCalls,
                 nExchanges>>
chatVars == <<session_messages, page, loadedModel, screen, lastEvent>>
feedbackVars == <<mongo, store, fbRun>>
dashboardVars == <<chatVars, fnCall, docRun, feedbackVars>>

vars == <<gatewayVars, dashboardVars>>

(***************************************************************************)
(* Bounds of the model.                                                    *)
(***************************************************************************)
MaxCalls == 2        \* operations started in one behaviour

Tasks == {1, 2}      \* cooperative tasks that may hold an awaited acreate

(***************************************************************************)
(* Values.  Python's None is a value of its own; the strings a caller may  *)
(* pass include the empty string.                                          *)
(***************************************************************************)
None == "<None>"

\* the dashboard before anything was done on it
SessionAtRest ==
    /\ session_messages = <<>>
    /\ page = "Home"
    /\ screen = [sidebar |-> FALSE, chatInput |-> FALSE, examples |-> 0]
    /\ lastEvent = [event |-> "none", from |-> "Home", completed |-> FALSE]

FeedbackAtRest ==
    /\ mongo = "unconnected"
    /\ store = <<>>
    /\ fbRun = [run |-> "none"]

DashboardAtRest ==
    /\ SessionAtRest
    /\ loadedModel = None
    /\ fnCall = [fn |-> "none"]
    /\ docRun = [run |-> "none"]
    /\ FeedbackAtRest

\* the tokens the credential context holds, in the order it is reconfigured
Tokens == <<"token0", "token1">>

Models == {"demo"}
Payloads == {"hi"}
Effects == {None, "", "allow"}

EmptyKwargs == [k \in {} |-> None]
KwargsSet == {EmptyKwargs, [temperature |-> "0.7", stop |-> None]}

(***************************************************************************)
(* Response bodies are raw text.  JSON values are sequences of objects,    *)
(* an object being a sequence of <<key, value>> pairs; the tag tells a     *)
(* single object from an array.                                            *)
(***************************************************************************)
BodyObject == "{\"id\":\"x\"}"
BodyError == "{\"error\":\"boom\"}"
BodyPolicies == "[{\"resource\":\"doc1\",\"action\":\"read\",\"subject\":\"alice\"}]"
BodyEmpty == ""

NoValue == [tag |-> "none", elems |-> <<>>]

\* json.loads succeeds on the text
Parseable(text) == text \in {BodyObject, BodyError, BodyPolicies}

\* json.loads on the body texts above
JsonDecode(text) ==
    IF text = BodyObject
    THEN [tag |-> "object", elems |-> << << <<"id", "x">> >> >>]
    ELSE IF text = BodyError
    THEN [tag |-> "object", elems |-> << << <<"error", "boom">> >> >>]
    ELSE IF text = BodyPolicies
    THEN [tag |-> "array",
          elems |-> << << <<"resource", "doc1">>, <<"action", "read">>,
                          <<"subject", "alice">> >> >>]
    ELSE NoValue

\* what the transport hands back: a response, or an exception it raised
TransportFailure == [kind |-> "raised", status_code |-> 0, text |-> "ConnectError"]

Response(status_code, text) ==
    [kind |-> "response", status_code |-> status_code, text |-> text]

Responses ==
    {Response(s, b) : s \in {200, 201, 204}, b \in {BodyObject, BodyEmpty}}
    \cup {Response(200, BodyPolicies), Response(500, BodyError), TransportFailure}

(***************************************************************************)
(* The credential context: _get_headers() and the href definitions of the  *)
(* client.                                                                 *)
(***************************************************************************)
GetHeaders(c) == [Authorization |-> Tokens[c.token + 1]]

NoJson == [k \in {} |-> None]

Request(method, url, headers, hasJson, json) ==
    [method |-> method, url |-> url, headers |-> headers,
     hasJson |-> hasJson, json |-> json]

(***************************************************************************)
(* Outcomes of a call: a returned value or a raised error.                 *)
(***************************************************************************)
Returned(value, marker, table) ==
    [kind |-> "return", error |-> "none", operationName |-> "", expected |-> 0,
     actual |-> 0, body |-> "", value |-> value, marker |-> marker, table |-> table]

Raised(error, operationName, expected, actual, body) ==
    [kind |-> "raise", error |-> error, operationName |-> operationName,
     expected |-> expected, actual |-> actual, body |-> body,
     value |-> NoValue, marker |-> "", table |-> <<>>]

\* WMLResource._handle_response(expected_status_code, operationName, response,
\* json_response)
HandleResponse(expected_status_code, operationName, response, json_response) ==
    IF response.status_code = expected_status_code
    THEN IF json_response
         THEN IF Parseable(response.text)
              THEN Returned(JsonDecode(response.text), "", <<>>)
              ELSE Raised("DecodeFailure", operationName, expected_status_code,
                          response.status_code, response.text)
         ELSE Returned(NoValue, "SUCCESS", <<>>)
    ELSE Raised("ApiRequestFailure", operationName, expected_status_code,
                response.status_code, response.text)

\* an exception raised by the transport leaves the method at the dispatch
\* statement; otherwise the method goes on to its return statement
\* faulty variant: a transport exception is caught and reported as a failed request
Propagate_Translate(response, result) ==
    IF response.kind = "raised"
    THEN Raised("ApiRequestFailure", "", 0, 0, response.text)
    ELSE result

Propagate(response, result) ==
    IF response.kind = "raised"
    THEN Raised(response.text, "", 0, 0, "")
    ELSE result

(***************************************************************************)
(* Gateway.__init__(credentials, api_client).  The result names the error  *)
(* raised, if any, the construction steps performed in order and the       *)
(* sub-resource handles created.                                           *)
(***************************************************************************)
SubResources == <<"providers", "models", "chat", "completions", "embeddings">>

Range(s) == {s[i] : i \in DOMAIN s}

\* faulty variant: the arguments are checked after the resource is set up
GatewayInitResult_LateCheck(credentials, api_client, c) ==
    LET built == IF credentials # None THEN <<"APIClient">> ELSE <<>>
        steps == built \o <<"WMLResource.__init__", "ICP_PLATFORM_SPACES">>
    IN IF c.ICP_PLATFORM_SPACES
       THEN [status |-> "WMLClientError", trace |-> steps, handles |-> {}]
       ELSE IF credentials = None /\ api_client = None
       THEN [status |-> "InvalidMultipleArguments", trace |-> steps, handles |-> {}]
       ELSE [status |-> "ready", trace |-> steps \o SubResources,
             handles |-> Range(SubResources)]

\* faulty variant: the platform is checked only for a client built from credentials
GatewayInitResult_ApiClientUnchecked(credentials, api_client, c) ==
    IF credentials = None /\ api_client = None
    THEN [status |-> "InvalidMultipleArguments", trace |-> <<>>, handles |-> {}]
    ELSE LET built == IF credentials # None THEN <<"APIClient">> ELSE <<>>
             steps == built \o <<"WMLResource.__init__", "ICP_PLATFORM_SPACES">>
         IN IF c.ICP_PLATFORM_SPACES /\ credentials # None
            THEN [status |-> "WMLClientError", trace |-> steps, handles |-> {}]
            ELSE [status |-> "ready", trace |-> steps \o SubResources,
                  handles |-> Range(SubResources)]

GatewayInitResult(credentials, api_client, c) ==
    IF credentials = None /\ api_client = None
    THEN [status |-> "InvalidMultipleArguments", trace |-> <<>>, handles |-> {}]
    ELSE LET built == IF credentials # None THEN <<"APIClient">> ELSE <<>>
             steps == built \o <<"WMLResource.__init__", "ICP_PLATFORM_SPACES">>
         IN IF c.ICP_PLATFORM_SPACES
            THEN [status |-> "WMLClientError", trace |-> steps, handles |-> {}]
            ELSE [status |-> "ready", trace |-> steps \o SubResources,
                  handles |-> Range(SubResources)]

(***************************************************************************)
(* Chat completions: _ChatCompletions.create / acreate.                    *)
(***************************************************************************)
ChatCompletions_create_request(c, model, messages, kwargs) ==
    LET request_json == [messages |-> messages, model |-> model]
    IN Request("POST", "gateway_chat_completions_href", GetHeaders(c), TRUE,
               IF DOMAIN kwargs # {} THEN kwargs @@ request_json ELSE request_json)

ChatCompletions_create_return(response) ==
    HandleResponse(200, "chat completion creation", response, TRUE)

ChatCompletions_acreate_request(c, model, messages, kwargs) ==
    LET request_json == [messages |-> messages, model |-> model]
    IN Request("POST", "gateway_chat_completions_href", GetHeaders(c), TRUE,
               IF DOMAIN kwargs # {} THEN kwargs @@ request_json ELSE request_json)

ChatCompletions_acreate_return(response) ==
    HandleResponse(200, "chat completion creation", response, TRUE)

(***************************************************************************)
(* Text completions: _Completions.create / acreate.                        *)
(***************************************************************************)
Completions_create_request(c, model, prompt, kwargs) ==
    LET request_json == [prompt |-> prompt, model |-> model]
    IN Request("POST", "gateway_text_completions_href", GetHeaders(c), TRUE,
               IF DOMAIN kwargs # {} THEN kwargs @@ request_json ELSE request_json)

Completions_create_return(response) ==
    HandleResponse(200, "text completion creation", response, TRUE)

Completions_acreate_request(c, model, prompt, kwargs) ==
    LET request_json == [prompt |-> prompt, model |-> model]
    IN Request("POST", "gateway_text_completions_href", GetHeaders(c), TRUE,
               IF DOMAIN kwargs # {} THEN kwargs @@ request_json ELSE request_json)

\* faulty variant: the operation name of the chat method left in place
Completions_acreate_return_ChatName(response) ==
    HandleResponse(200, "chat completion creation", response, TRUE)

Completions_acreate_return(response) ==
    HandleResponse(200, "text completion creation", response, TRUE)

(***************************************************************************)
(* Embeddings: _Embeddings.create / acreate.                               *)
(***************************************************************************)
Embeddings_create_request(c, model, input, kwargs) ==
    LET request_json == [input |-> input, model |-> model]
    IN Request("POST", "gateway_embeddings_href", GetHeaders(c), TRUE,
               IF DOMAIN kwargs # {} THEN kwargs @@ request_json ELSE request_json)

Embeddings_create_return(response) ==
    HandleResponse(200, "embedding creation", response, TRUE)

\* faulty variant: the envelope of the text method left in place
Embeddings_acreate_request_PromptKey(c, model, input, kwargs) ==
    LET request_json == [prompt |-> input, model |-> model]
    IN Request("POST", "gateway_embeddings_href", GetHeaders(c), TRUE,
               IF DOMAIN kwargs # {} THEN kwargs @@ request_json ELSE request_json)

Embeddings_acreate_request(c, model, input, kwargs) ==
    LET request_json == [input |-> input, model |-> model]
    IN Request("POST", "gateway_embeddings_href", GetHeaders(c), TRUE,
               IF DOMAIN kwargs # {} THEN kwargs @@ request_json ELSE request_json)

\* faulty variant: acreate classifies against 201
Embeddings_acreate_return_Expect201(response) ==
    HandleResponse(201, "embedding creation", response, TRUE)

Embeddings_acreate_return(response) ==
    HandleResponse(200, "embedding creation", response, TRUE)

(***************************************************************************)
(* Tenant configuration: Gateway.set_secrets_manager /                     *)
(* clear_secrets_manager.                                                  *)
(***************************************************************************)
DefaultConfigName == "Watsonx AI Model Gateway configuration"

SetSecretsManager_request(c, secrets_manager, name) ==
    Request("POST", "gateway_tenant_href", GetHeaders(c), TRUE,
            [name |-> name, secrets_manager |-> secrets_manager])

\* faulty variant: the tenant configuration call expects 200
SetSecretsManager_return_Expect200(response) ==
    HandleResponse(200, "set secrets manager", response, TRUE)

SetSecretsManager_return(response) ==
    HandleResponse(201, "set secrets manager", response, TRUE)

ClearSecretsManager_request(c) ==
    Request("DELETE", "gateway_tenant_href", GetHeaders(c), FALSE, NoJson)

ClearSecretsManager_return(response) ==
    HandleResponse(204, "tenant deletion", response, FALSE)

(***************************************************************************)
(* Policies.create / delete / get_details / list.                          *)
(***************************************************************************)
\* Python truthiness of a str | None argument
Truthy(x) == x # None /\ x # ""

Policies_create_request(c, action, resource, subject, effect) ==
    LET request_json == [action |-> action, resource |-> resource, subject |-> subject]
    IN Request("POST", "gateway_policy_href", GetHeaders(c), TRUE,
               IF Truthy(effect) THEN [effect |-> effect] @@ request_json
               ELSE request_json)

\* faulty variant: creation treats its 204 as body-less
Policies_create_return_NoDecode(response) ==
    HandleResponse(204, "policy creation", response, FALSE)

Policies_create_return(response) ==
    HandleResponse(204, "policy creation", response, TRUE)

Policies_delete_request(c, action, resource, subject, effect) ==
    LET request_json == [action |-> action, resource |-> resource, subject |-> subject]
    IN Request("DELETE", "gateway_policy_href", GetHeaders(c), TRUE,
               IF Truthy(effect) THEN [effect |-> effect] @@ request_json
               ELSE request_json)

Policies_delete_return(response) ==
    HandleResponse(204, "policy deletion", response, FALSE)

\* faulty variant: headers taken once, from the context as first configured
Policies_get_details_request_StaleHeaders(c) ==
    Request("GET", "gateway_policy_href", GetHeaders([c EXCEPT !.token = 0]),
            FALSE, NoJson)

Policies_get_details_request(c) ==
    Request("GET", "gateway_policy_href", GetHeaders(c), FALSE, NoJson)

Policies_get_details_return(response) ==
    HandleResponse(200, "policy listing", response, TRUE)

\* dict lookups of Policies.list on one decoded policy
HasKey(obj, key) == \E i \in DOMAIN obj : obj[i][1] = key
Get(obj, key, default) ==
    IF HasKey(obj, key)
    THEN obj[CHOOSE i \in DOMAIN obj : obj[i][1] = key][2]
    ELSE default

\* Policies.list: get_details(), then one row per policy
Policies_list_return(response) ==
    LET policy_details == Policies_get_details_return(response)
    IN IF policy_details.kind = "raise" THEN policy_details
       ELSE IF policy_details.value.tag # "array"
       THEN Raised("TypeError", "", 0, 0, "")
       ELSE IF \E i \in DOMAIN policy_details.value.elems :
                  \E key \in {"resource", "action", "subject"} :
                     ~HasKey(policy_details.value.elems[i], key)
       THEN Raised("KeyError", "", 0, 0, "")
       ELSE Returned(NoValue, "",
                [i \in DOMAIN policy_details.value.elems |->
                   LET m == policy_details.value.elems[i]
                   IN <<Get(m, "resource", ""), Get(m, "action", ""),
                        Get(m, "subject", ""), Get(m, "effect", "")>>])

(***************************************************************************)
(* State.  `pending[t]` is the acreate call task t is suspended in (its    *)
(* request is on the wire), `last` the call that completed most recently   *)
(* with what it handed to its caller.                                      *)
(***************************************************************************)
NoRequest == Request("", "", [Authorization |-> ""], FALSE, NoJson)
NoResponse == [kind |-> "none", status_code |-> 0, text |-> ""]
NoArgs == [k \in {} |-> None]

Idle == [op |-> "idle", args |-> NoArgs, request |-> NoRequest]
NoCall == [op |-> "none", args |-> NoArgs, request |-> NoRequest,
           response |-> NoResponse, outcome |-> Returned(NoValue, "", <<>>)]

Init ==
    /\ client \in [token : {0}, ICP_PLATFORM_SPACES : BOOLEAN]
    /\ gateway = "none"
    /\ initArgs = [credentials |-> None, api_client |-> None]
    /\ initTrace = <<>>
    /\ handles = {}
    /\ pending = [t \in Tasks |-> Idle]
    /\ last = NoCall
    /\ nCalls = 0
    /\ nExchanges = 0
    /\ DashboardAtRest

\* Gateway(credentials=..., api_client=...)
GatewayInit ==
    /\ gateway = "none"
    /\ \E credentials \in {None, "credentials"}, api_client \in {None, "api_client"} :
          LET r == GatewayInitResult(credentials, api_client, client)
          IN /\ gateway' = r.status
             /\ initArgs' = [credentials |-> credentials, api_client |-> api_client]
             /\ initTrace' = r.trace
             /\ handles' = r.handles
    /\ UNCHANGED <<client, pending, last, nCalls, nExchanges,
                 dashboardVars>>

\* the credential context is reconfigured (a new token is set on the client)
Reconfigure ==
    /\ client.token + 1 < Len(Tokens)
    /\ client' = [client EXCEPT !.token = @ + 1]
    /\ UNCHANGED <<gateway, initArgs, initTrace, handles, pending, last, nCalls, nExchanges,
                 dashboardVars>>

\* faulty variant: a call that ends in an error is dispatched once more
Blocking_Retry(op, args, request, response, result) ==
    /\ nCalls < MaxCalls
    /\ nCalls' = nCalls + 1
    /\ nExchanges' =
          nExchanges + (IF Propagate(response, result).kind = "raise" THEN 2 ELSE 1)
    /\ last' = [op |-> op, args |-> args, request |-> request, response |-> response,
                outcome |-> Propagate(response, result)]
    /\ UNCHANGED <<client, gateway, initArgs, initTrace, handles, pending,
                 dashboardVars>>

\* a blocking call: one dispatch, the transport's answer, the return statement
Blocking(op, args, request, response, result) ==
    /\ nCalls < MaxCalls
    /\ nCalls' = nCalls + 1
    /\ nExchanges' = nExchanges + 1
    /\ last' = [op |-> op, args |-> args, request |-> request, response |-> response,
                outcome |-> Propagate(response, result)]
    /\ UNCHANGED <<client, gateway, initArgs, initTrace, handles, pending,
                 dashboardVars>>

\* a non-blocking call up to its await: the request is dispatched and the
\* task is suspended (tasks are interchangeable: the first free one runs it)
Suspend(t, op, args, request) ==
    /\ nCalls < MaxCalls
    /\ pending[t] = Idle
    /\ \A u \in Tasks : u < t => pending[u] # Idle
    /\ nCalls' = nCalls + 1
    /\ nExchanges' = nExchanges + 1
    /\ pending' = [pending EXCEPT ![t] = [op |-> op, args |-> args, request |-> request]]
    /\ UNCHANGED <<client, gateway, initArgs, initTrace, handles, last,
                 dashboardVars>>

\* faulty variant: the request is kept in a field shared by the calls in
\* flight, so a resuming call sees the one stored last
Resume_SharedRequest(t, response, result) ==
    LET u == CHOOSE v \in Tasks :
                 /\ pending[v] # Idle
                 /\ \A w \in Tasks : pending[w] # Idle => w <= v
    IN /\ last' = [op |-> pending[t].op, args |-> pending[u].args,
                   request |-> pending[u].request, response |-> response,
                   outcome |-> Propagate(response, result)]
       /\ pending' = [pending EXCEPT ![t] = Idle]
       /\ UNCHANGED <<client, gateway, initArgs, initTrace, handles, nCalls, nExchanges,
                 dashboardVars>>

\* the awaited response arrives: the task resumes at the return statement
Resume(t, response, result) ==
    /\ last' = [op |-> pending[t].op, args |-> pending[t].args,
                request |-> pending[t].request, response |-> response,
                outcome |-> Propagate(response, result)]
    /\ pending' = [pending EXCEPT ![t] = Idle]
    /\ UNCHANGED <<client, gateway, initArgs, initTrace, handles, nCalls, nExchanges,
                 dashboardVars>>

ChatCompletionsCreate ==
    /\ "chat" \in handles
    /\ \E model \in Models, messages \in Payloads, kwargs \in KwargsSet,
          response \in Responses :
          Blocking("chat.completions.create",
                   [model |-> model, messages |-> messages, kwargs |-> kwargs],
                   ChatCompletions_create_request(client, model, messages, kwargs),
                   response, ChatCompletions_create_return(response))

ChatCompletionsAcreate ==
    /\ "chat" \in handles
    /\ \E t \in Tasks, model \in Models, messages \in Payloads, kwargs \in KwargsSet :
          Suspend(t, "chat.completions.acreate",
                  [model |-> model, messages |-> messages, kwargs |-> kwargs],
                  ChatCompletions_acreate_request(client, model, messages, kwargs))

ChatCompletionsAcreateResume ==
    \E t \in Tasks, response \in Responses :
       /\ pending[t].op = "chat.completions.acreate"
       /\ Resume(t, response, ChatCompletions_acreate_return(response))

CompletionsCreate ==
    /\ "completions" \in handles
    /\ \E model \in Models, prompt \in Payloads, kwargs \in KwargsSet,
          response \in Responses :
          Blocking("completions.create",
                   [model |-> model, prompt |-> prompt, kwargs |-> kwargs],
                   Completions_create_request(client, model, prompt, kwargs),
                   response, Completions_create_return(response))

CompletionsAcreate ==
    /\ "completions" \in handles
    /\ \E t \in Tasks, model \in Models, prompt \in Payloads, kwargs \in KwargsSet :
          Suspend(t, "completions.acreate",
                  [model |-> model, prompt |-> prompt, kwargs |-> kwargs],
                  Completions_acreate_request(client, model, prompt, kwargs))

CompletionsAcreateResume ==
    \E t \in Tasks, response \in Responses :
       /\ pending[t].op = "completions.acreate"
       /\ Resume(t, response, Completions_acreate_return(response))

EmbeddingsCreate ==
    /\ "embeddings" \in handles
    /\ \E model \in Models, input \in Payloads, kwargs \in KwargsSet,
          response \in Responses :
          Blocking("embeddings.create",
                   [model |-> model, input |-> input, kwargs |-> kwargs],
                   Embeddings_create_request(client, model, input, kwargs),
                   response, Embeddings_create_return(response))

EmbeddingsAcreate ==
    /\ "embeddings" \in handles
    /\ \E t \in Tasks, model \in Models, input \in Payloads, kwargs \in KwargsSet :
          Suspend(t, "embeddings.acreate",
                  [model |-> model, input |-> input, kwargs |-> kwargs],
                  Embeddings_acreate_request(client, model, input, kwargs))

EmbeddingsAcreateResume ==
    \E t \in Tasks, response \in Responses :
       /\ pending[t].op = "embeddings.acreate"
       /\ Resume(t, response, Embeddings_acreate_return(response))

SetSecretsManager ==
    /\ gateway = "ready"
    /\ \E secrets_manager \in {"https://sm.example"}, name \in {DefaultConfigName},
          response \in Responses :
          Blocking("set_secrets_manager",
                   [secrets_manager |-> secrets_manager, name |-> name],
                   SetSecretsManager_request(client, secrets_manager, name),
                   response, SetSecretsManager_return(response))

ClearSecretsManager ==
    /\ gateway = "ready"
    /\ \E response \in Responses :
          Blocking("clear_secrets_manager", NoArgs,
                   ClearSecretsManager_request(client),
                   response, ClearSecretsManager_return(response))

PoliciesCreate ==
    /\ nCalls < MaxCalls
    /\ \E action \in {"read"}, resource \in {"doc1"}, subject \in {"alice"},
       effect \in Effects, response \in Responses :
       Blocking("policies.create",
                [action |-> action, resource |-> resource, subject |-> subject,
                 effect |-> effect],
                Policies_create_request(client, action, resource, subject, effect),
                response, Policies_create_return(response))

PoliciesDelete ==
    /\ nCalls < MaxCalls
    /\ \E action \in {"read"}, resource \in {"doc1"}, subject \in {"alice"},
       effect \in Effects, response \in Responses :
       Blocking("policies.delete",
                [action |-> action, resource |-> resource, subject |-> subject,
                 effect |-> effect],
                Policies_delete_request(client, action, resource, subject, effect),
                response, Policies_delete_return(response))

PoliciesGetDetails ==
    /\ nCalls < MaxCalls
    /\ \E response \in Responses :
       Blocking("policies.get_details", NoArgs,
                Policies_get_details_request(client),
                response, Policies_get_details_return(response))

PoliciesList ==
    /\ nCalls < MaxCalls
    /\ \E response \in Responses :
       Blocking("policies.list", NoArgs,
                Policies_get_details_request(client),
                response, Policies_list_return(response))

Next ==
    \/ GatewayInit
    \/ Reconfigure
    \/ ChatCompletionsCreate
    \/ ChatCompletionsAcreate
    \/ ChatCompletionsAcreateResume
    \/ CompletionsCreate
    \/ CompletionsAcreate
    \/ CompletionsAcreateResume
    \/ EmbeddingsCreate
    \/ EmbeddingsAcreate
    \/ EmbeddingsAcreateResume
    \/ SetSecretsManager
    \/ ClearSecretsManager
    \/ PoliciesCreate
    \/ PoliciesDelete
    \/ PoliciesGetDetails
    \/ PoliciesList

Spec == Init /\ [][Next]_vars

(***************************************************************************)
(* The endpoint table of the design: expected success status and whether   *)
(* the body is decoded, per operation.                                     *)
(***************************************************************************)
ChatOps == {"chat.completions.create", "chat.completions.acreate"}
TextOps == {"completions.create", "completions.acreate"}
EmbeddingOps == {"embeddings.create", "embeddings.acreate"}
MediatorOps ==
    ChatOps \cup TextOps \cup EmbeddingOps
    \cup {"set_secrets_manager", "clear_secrets_manager", "policies.create",
          "policies.delete", "policies.get_details"}

TableExpected(op) ==
    CASE op = "set_secrets_manager" -> 201
      [] op \in {"clear_secrets_manager", "policies.create", "policies.delete"} -> 204
      [] OTHER -> 200

TableDecodes(op) == op \notin {"clear_secrets_manager", "policies.delete"}

Answered == last.response.kind = "response"
Matched == Answered /\ last.response.status_code = TableExpected(last.op)

ExpectedIs(ops, code) ==
    (last.op \in ops /\ Answered) =>
        IF last.response.status_code = code
        THEN last.outcome.error # "ApiRequestFailure"
        ELSE /\ last.outcome.error = "ApiRequestFailure"
             /\ last.outcome.expected = code

C2_ExpectedStatusPerOperation ==
    /\ ExpectedIs(ChatOps, 200)
    /\ ExpectedIs(TextOps, 200)
    /\ ExpectedIs(EmbeddingOps, 200)
    /\ ExpectedIs({"set_secrets_manager"}, 201)
    /\ ExpectedIs({"clear_secrets_manager"}, 204)
    /\ ExpectedIs({"policies.create"}, 204)
    /\ ExpectedIs({"policies.delete"}, 204)
    /\ ExpectedIs({"policies.get_details", "policies.list"}, 200)

\* set_secrets_manager answered 200: an error that expected 201
C2_Witness ==
    /\ last.op = "set_secrets_manager"
    /\ last.response.status_code = 200
    /\ last.outcome.error = "ApiRequestFailure"
    /\ last.outcome.expected = 201

EnvelopeIs(json, required, args, optional) ==
    /\ DOMAIN json = required \cup DOMAIN optional
    /\ \A k \in required : json[k] = args[k]
    /\ \A k \in DOMAIN optional : json[k] = optional[k]

Supplied(args, key) ==
    IF args[key] # None THEN [k \in {key} |-> args[key]] ELSE [k \in {} |-> None]

C4_EnvelopeExact ==
    /\ last.op \in ChatOps =>
          EnvelopeIs(last.request.json, {"model", "messages"}, last.args,
                     last.args.kwargs)
    /\ last.op \in TextOps =>
          EnvelopeIs(last.request.json, {"model", "prompt"}, last.args,
                     last.args.kwargs)
    /\ last.op \in EmbeddingOps =>
          EnvelopeIs(last.request.json, {"model", "input"}, last.args,
                     last.args.kwargs)
    /\ last.op = "set_secrets_manager" =>
          EnvelopeIs(last.request.json, {"name", "secrets_manager"}, last.args,
                     [k \in {} |-> None])
    /\ last.op \in {"policies.create", "policies.delete"} =>
          EnvelopeIs(last.request.json, {"action", "resource", "subject"}, last.args,
                     Supplied(last.args, "effect"))

(***************************************************************************)
(* C5: constructing Gateway with neither credentials nor api_client fails  *)
(* with InvalidMultipleArguments before any step of the construction: no   *)
(* client is built, the platform is not checked, no sub-resource is        *)
(* created, and so no Gateway operation is ever dispatched.                *)
(***************************************************************************)
GatewayOps ==
    ChatOps \cup TextOps \cup EmbeddingOps
    \cup {"set_secrets_manager", "clear_secrets_manager"}

C5_NoCredentialSource ==
    (gateway # "none" /\ initArgs.credentials = None /\ initArgs.api_client = None) =>
        /\ gateway = "InvalidMultipleArguments"
        /\ initTrace = <<>>
        /\ handles = {}
        /\ last.op \notin GatewayOps
        /\ \A t \in Tasks : pending[t] = Idle

\* the construction was attempted without either argument and failed
C5_Witness ==
    /\ gateway = "InvalidMultipleArguments"
    /\ initArgs = [credentials |-> None, api_client |-> None]

(***************************************************************************)
(* C6: when the status of the response is not the expected one, the call   *)
(* raises the unexpected-status error to its caller (it returns nothing),  *)
(* and the error carries the operation's name, the expected status, the    *)
(* status received and the raw body of the response.                       *)
(***************************************************************************)
OperationNameOf(op) ==
    CASE op \in ChatOps -> "chat completion creation"
      [] op \in TextOps -> "text completion creation"
      [] op \in EmbeddingOps -> "embedding creation"
      [] op = "set_secrets_manager" -> "set secrets manager"
      [] op = "clear_secrets_manager" -> "tenant deletion"
      [] op = "policies.create" -> "policy creation"
      [] op = "policies.delete" -> "policy deletion"
      [] OTHER -> "policy listing"

C6_ErrorCarriesDiagnostics ==
    (last.op # "none" /\ Answered /\ ~Matched) =>
        last.outcome =
            Raised("ApiRequestFailure", OperationNameOf(last.op),
                   TableExpected(last.op), last.response.status_code,
                   last.response.text)

\* a chat call answered 500 with a body: expected 200, actual 500, that body
C6_Witness ==
    /\ last.op = "chat.completions.create"
    /\ last.response = Response(500, BodyError)
    /\ last.outcome.kind = "raise"
    /\ last.outcome.expected = 200
    /\ last.outcome.actual = 500
    /\ last.outcome.body = BodyError

(***************************************************************************)
(* C7: for chat completions, text completions and embeddings, a completed  *)
(* acreate call has dispatched the request that create builds from the     *)
(* same arguments under the same credential context (same envelope, URL,   *)
(* method and headers) and hands its caller the outcome create yields for  *)
(* the same response; and the other way round.                             *)
(***************************************************************************)
ContextOf(request) ==
    [token |-> (CHOOSE i \in DOMAIN Tokens :
                    Tokens[i] = request.headers.Authorization) - 1,
     ICP_PLATFORM_SPACES |-> FALSE]

C7_BlockingEqualsNonBlocking ==
    LET c == ContextOf(last.request)
        a == last.args
        r == last.response
    IN /\ last.op = "chat.completions.acreate" =>
            /\ last.request =
                 ChatCompletions_create_request(c, a.model, a.messages, a.kwargs)
            /\ last.outcome = Propagate(r, ChatCompletions_create_return(r))
       /\ last.op = "chat.completions.create" =>
            /\ last.request =
                 ChatCompletions_acreate_request(c, a.model, a.messages, a.kwargs)
            /\ last.outcome = Propagate(r, ChatCompletions_acreate_return(r))
       /\ last.op = "completions.acreate" =>
            /\ last.request = Completions_create_request(c, a.model, a.prompt, a.kwargs)
            /\ last.outcome = Propagate(r, Completions_create_return(r))
       /\ last.op = "completions.create" =>
            /\ last.request = Completions_acreate_request(c, a.model, a.prompt, a.kwargs)
            /\ last.outcome = Propagate(r, Completions_acreate_return(r))
       /\ last.op = "embeddings.acreate" =>
            /\ last.request = Embeddings_create_request(c, a.model, a.input, a.kwargs)
            /\ last.outcome = Propagate(r, Embeddings_create_return(r))
       /\ last.op = "embeddings.create" =>
            /\ last.request = Embeddings_acreate_request(c, a.model, a.input, a.kwargs)
            /\ last.outcome = Propagate(r, Embeddings_acreate_return(r))

\* an embeddings acreate with extra keyword arguments that was answered 200
C7_Witness ==
    /\ last.op = "embeddings.acreate"
    /\ DOMAIN last.args.kwargs # {}
    /\ last.response = Response(200, BodyObject)
    /\ last.outcome.kind = "return"

(***************************************************************************)
(* C8: every call performs exactly one HTTP exchange, whatever its         *)
(* outcome: the exchanges performed are as many as the calls started, a    *)
(* step that starts a call dispatches once, and a step that completes an   *)
(* awaited call dispatches nothing.  Policies.list included.               *)
(***************************************************************************)
C8_OneExchangePerCall ==
    [][/\ nCalls' = nCalls + 1 => nExchanges' = nExchanges + 1
       /\ nCalls' = nCalls => nExchanges' = nExchanges]_vars

\* a second call made after a call that failed, two exchanges in all
C8_Witness ==
    /\ nCalls = 2
    /\ nExchanges = 2
    /\ last.op = "policies.list"
    /\ last.outcome.kind = "raise"

(***************************************************************************)
(* C9 as stated: no dispatched envelope holds an optional field with a     *)
(* null value (effect of Policies.create / delete, extra keyword arguments *)
(* of chat / text / embeddings create and acreate).                        *)
(***************************************************************************)
NoNull(request) == \A k \in DOMAIN request.json : request.json[k] # None

C9_NoNullOnTheWire ==
    /\ NoNull(last.request)
    /\ \A t \in Tasks : NoNull(pending[t].request)

(***************************************************************************)
(* C10: every request is dispatched with the headers of the credential     *)
(* context as it is at that dispatch, for blocking and non-blocking calls  *)
(* alike.                                                                  *)
(***************************************************************************)
C10_CurrentHeadersAtDispatch ==
    [][nExchanges' # nExchanges =>
         /\ pending' = pending => last'.request.headers = GetHeaders(client)
         /\ \A t \in Tasks :
               pending'[t] # pending[t] =>
                  pending'[t].request.headers = GetHeaders(client)]_vars

\* the second call, made after the context was reconfigured, carried the
\* new headers while the first had carried the old ones
C10_Witness ==
    /\ client.token = 1
    /\ nCalls = 2
    /\ last.op = "policies.get_details"
    /\ last.request.headers = [Authorization |-> Tokens[2]]
    /\ \E t \in Tasks : /\ pending[t] # Idle
                        /\ pending[t].request.headers = [Authorization |-> Tokens[1]]

(***************************************************************************)
(* C11: non-blocking calls in flight together do not interfere.  While a   *)
(* call is suspended nothing another call or task does changes it; when    *)
(* its response arrives, whatever the order of arrivals, the call          *)
(* completes with its own arguments and the request it dispatched, its     *)
(* outcome is the one its own response gives a call run alone, and the     *)
(* calls still suspended are left as they are.                             *)
(***************************************************************************)
AloneOutcome(op, response) ==
    IF response.kind = "raised"
    THEN Raised(response.text, "", 0, 0, "")
    ELSE HandleResponse(200, OperationNameOf(op), response, TRUE)

C11_CallsIndependent ==
    [][\A t \in Tasks :
          /\ (pending[t] # Idle /\ pending'[t] # Idle) => pending'[t] = pending[t]
          /\ (pending[t] # Idle /\ pending'[t] = Idle) =>
                /\ last'.op = pending[t].op
                /\ last'.args = pending[t].args
                /\ last'.request = pending[t].request
                /\ last'.outcome = AloneOutcome(pending[t].op, last'.response)
                /\ \A u \in Tasks \ {t} : pending'[u] = pending[u]]_vars

\* the call issued second completed first, with an error, while the first
\* one, of another kind and under another context, is still suspended
C11_Witness ==
    /\ pending[1].op = "chat.completions.acreate"
    /\ pending[2] = Idle
    /\ last.op = "embeddings.acreate"
    /\ last.outcome.kind = "raise"
    /\ last.request.headers # pending[1].request.headers

(***************************************************************************)
(* C12 as stated: on a deployment whose client has ICP_PLATFORM_SPACES     *)
(* set, constructing Gateway fails with the platform-unsupported error     *)
(* for both ways of supplying the client, no sub-resource handle is        *)
(* created, and no operation at all is dispatched on that deployment.      *)
(***************************************************************************)
PlatformUnsupported ==
    /\ gateway # "none"
    /\ client.ICP_PLATFORM_SPACES
    /\ ~(initArgs.credentials = None /\ initArgs.api_client = None)

C13_TransportErrorUnchanged ==
    (last.op # "none" /\ last.response.kind = "raised") =>
        /\ last.outcome.kind = "raise"
        /\ last.outcome.error = last.response.text
        /\ last.outcome = Raised(last.response.text, "", 0, 0, "")

\* the transport failed under Policies.create
C13_Witness ==
    /\ last.op = "policies.create"
    /\ last.response = TransportFailure
    /\ last.outcome.error = "ConnectError"

(***************************************************************************)
(* The dashboard (app.py).  Its helper functions first: the two calls of   *)
(* the completion provider.  A generation of the provider is the text it   *)
(* returns or an exception; a stream is the chunks it produces and whether *)
(* it then raises instead of ending.                                       *)
(***************************************************************************)
MaxChunks == 2       \* chunks of one provider stream
MaxHistory == 2      \* messages of a history handed to get_model_response

SeqsUpTo(S, n) == UNION {[1..k -> S] : k \in 0..n}

Chunks == {"Smart ", "cities"}
Streams(C) == [chunks : SeqsUpTo(C, MaxChunks), raises : BOOLEAN]
Generations == [text : {"", "A summary."}, raises : BOOLEAN]
Documents == {"Policy text", "x", ""}
LoadedModels == {None, "ModelInference"}
Histories ==
    SeqsUpTo([role : {"user", "assistant"}, content : {"hi"}], MaxHistory)

ApologyModelMissing == "Sorry, the model is not available due to a loading error."
ApologySummary ==
    "Sorry, I encountered an issue while trying to generate the summary."
ApologyResponse == "Sorry, I encountered an issue while trying to get a response."

SummaryPrompt(document_text) ==
    "Document:\n---\n" \o document_text \o "\n---\n\nSummary:\n"

\* faulty variant: the provider call is not guarded
get_summary_response_Unguarded(model, document_text, generation) ==
    IF model = None
    THEN [returned |-> ApologyModelMissing, raised |-> FALSE, providerCalls |-> 0,
          reported |-> 0, prompt |-> ""]
    ELSE [returned |-> IF generation.raises THEN "" ELSE generation.text,
          raised |-> generation.raises, providerCalls |-> 1,
          reported |-> 0, prompt |-> SummaryPrompt(document_text)]

get_summary_response(model, document_text, generation) ==
    IF model = None
    THEN [returned |-> ApologyModelMissing, raised |-> FALSE, providerCalls |-> 0,
          reported |-> 0, prompt |-> ""]
    ELSE IF generation.raises
    THEN [returned |-> ApologySummary, raised |-> FALSE, providerCalls |-> 1,
          reported |-> 1, prompt |-> SummaryPrompt(document_text)]
    ELSE [returned |-> generation.text, raised |-> FALSE, providerCalls |-> 1,
          reported |-> 0, prompt |-> SummaryPrompt(document_text)]

SystemPrompt == "You are a helpful and knowledgeable Smart City Assistant."

RECURSIVE FormatHistory(_)
FormatHistory(msgs) ==
    IF msgs = <<>> THEN ""
    ELSE FormatHistory(SubSeq(msgs, 1, Len(msgs) - 1))
         \o "\n"
         \o (IF msgs[Len(msgs)].role = "user" THEN "Input" ELSE "Response")
         \o ": " \o msgs[Len(msgs)].content

FormattedPrompt(msgs) == SystemPrompt \o FormatHistory(msgs) \o "Response:"

\* what the generator yields until it is exhausted
get_model_response(model, msgs, stream) ==
    IF model = None
    THEN [yielded |-> <<ApologyModelMissing>>, raised |-> FALSE, providerCalls |-> 0,
          reported |-> 0, prompt |-> ""]
    ELSE [yielded |-> stream.chunks
                        \o (IF stream.raises THEN <<ApologyResponse>> ELSE <<>>),
          raised |-> FALSE, providerCalls |-> 1,
          reported |-> IF stream.raises THEN 1 ELSE 0,
          prompt |-> FormattedPrompt(msgs)]

GatewayAtRest ==
    /\ client = [token |-> 0, ICP_PLATFORM_SPACES |-> FALSE]
    /\ gateway = "none"
    /\ initArgs = [credentials |-> None, api_client |-> None]
    /\ initTrace = <<>>
    /\ handles = {}
    /\ pending = [t \in Tasks |-> Idle]
    /\ last = NoCall
    /\ nCalls = 0
    /\ nExchanges = 0

FunctionsInit == GatewayAtRest /\ DashboardAtRest

CallGetSummaryResponse ==
    /\ \E model \in LoadedModels, document_text \in Documents,
          generation \in Generations :
          fnCall' = [fn |-> "get_summary_response", model |-> model,
                     document_text |-> document_text, provider |-> generation,
                     result |-> get_summary_response(model, document_text, generation)]
    /\ UNCHANGED <<gatewayVars, chatVars, docRun, feedbackVars>>

CallGetModelResponse ==
    /\ \E model \in LoadedModels, msgs \in Histories, stream \in Streams(Chunks) :
          fnCall' = [fn |-> "get_model_response", model |-> model,
                     messages |-> msgs, provider |-> stream,
                     result |-> get_model_response(model, msgs, stream)]
    /\ UNCHANGED <<gatewayVars, chatVars, docRun, feedbackVars>>

FunctionsNext == CallGetSummaryResponse \/ CallGetModelResponse

FunctionsSpec == FunctionsInit /\ [][FunctionsNext]_vars

(***************************************************************************)
(* C14: get_summary_response and get_model_response never let an           *)
(* exception out.  Without a model each gives exactly one apology text     *)
(* and does not call the provider.  When the provider raises,              *)
(* get_summary_response returns an apology, and get_model_response yields  *)
(* the chunks the provider produced, then exactly one apology chunk, and   *)
(* ends; when it does not raise they give the provider's text and chunks.  *)
(***************************************************************************)
C14_ProviderFailureContained ==
    /\ fnCall.fn = "get_summary_response" =>
          /\ ~fnCall.result.raised
          /\ fnCall.model = None =>
                /\ fnCall.result.returned = ApologyModelMissing
                /\ fnCall.result.providerCalls = 0
          /\ (fnCall.model # None /\ fnCall.provider.raises) =>
                fnCall.result.returned = ApologySummary
          /\ (fnCall.model # None /\ ~fnCall.provider.raises) =>
                fnCall.result.returned = fnCall.provider.text
    /\ fnCall.fn = "get_model_response" =>
          /\ ~fnCall.result.raised
          /\ fnCall.model = None =>
                /\ fnCall.result.yielded = <<ApologyModelMissing>>
                /\ fnCall.result.providerCalls = 0
          /\ (fnCall.model # None /\ fnCall.provider.raises) =>
                fnCall.result.yielded = Append(fnCall.provider.chunks, ApologyResponse)
          /\ (fnCall.model # None /\ ~fnCall.provider.raises) =>
                fnCall.result.yielded = fnCall.provider.chunks

\* the provider's stream raised after two chunks
C14_Witness ==
    /\ fnCall.fn = "get_model_response"
    /\ fnCall.model # None
    /\ fnCall.provider.raises
    /\ Len(fnCall.provider.chunks) = 2
    /\ Len(fnCall.result.yielded) = 3
    /\ fnCall.result.yielded[3] = ApologyResponse

(***************************************************************************)
(* The Policy Summarizer page.  An uploaded text file is a sequence of     *)
(* bytes, some of which are not valid UTF-8; an uploaded PDF either cannot *)
(* be opened or is a sequence of pages, each of which gives a text, an     *)
(* empty text, nothing, or fails to be extracted.                          *)
(***************************************************************************)
MaxBytes == 2        \* bytes of an uploaded text file
MaxPages == 2        \* pages of an uploaded PDF

InvalidByte == "<0xff>"
Bytes == {"a", "b", InvalidByte}
PageFails == "<PdfReadError>"
PageTexts == {None, "", "One. ", "Two.", PageFails}

UploadedFiles ==
    [type : {"text/plain"}, value : SeqsUpTo(Bytes, MaxBytes)]
    \cup [type : {"application/pdf"}, opens : {TRUE},
          pages : SeqsUpTo(PageTexts, MaxPages)]
    \cup [type : {"application/pdf"}, opens : {FALSE}, pages : {<<>>}]
    \cup [type : {"image/png"}, value : {<<"a">>}]

\* bytes.decode("utf-8", errors="ignore")
RECURSIVE decode(_)
decode(value) ==
    IF value = <<>> THEN ""
    ELSE (IF Head(value) = InvalidByte THEN "" ELSE Head(value)) \o decode(Tail(value))

\* faulty variant: a failing page ends the loop with the text gathered so far
RECURSIVE ReadPages_Partial(_, _)
ReadPages_Partial(text, pages) ==
    IF pages = <<>> THEN [returned |-> text, reported |-> 0, raised |-> FALSE]
    ELSE IF Head(pages) = PageFails
    THEN [returned |-> text, reported |-> 1, raised |-> FALSE]
    ELSE IF Head(pages) \notin {None, ""}
    THEN ReadPages_Partial(text \o Head(pages), Tail(pages))
    ELSE ReadPages_Partial(text, Tail(pages))

\* the loop over pdf_reader.pages, from the text gathered so far
RECURSIVE ReadPages(_, _)
ReadPages(text, pages) ==
    IF pages = <<>> THEN [returned |-> text, reported |-> 0, raised |-> FALSE]
    ELSE IF Head(pages) = PageFails
    THEN [returned |-> None, reported |-> 1, raised |-> FALSE]
    ELSE IF Head(pages) \notin {None, ""}
    THEN ReadPages(text \o Head(pages), Tail(pages))
    ELSE ReadPages(text, Tail(pages))

extract_text_from_file(uploaded_file) ==
    IF uploaded_file.type = "text/plain"
    THEN [returned |-> decode(uploaded_file.value), reported |-> 0, raised |-> FALSE]
    ELSE IF uploaded_file.type = "application/pdf"
    THEN IF ~uploaded_file.opens
         THEN [returned |-> None, reported |-> 1, raised |-> FALSE]
         ELSE ReadPages("", uploaded_file.pages)
    ELSE [returned |-> None, reported |-> 0, raised |-> FALSE]

\* one run of the page for one uploaded file; pressed: the run was started by
\* the file's "Summarize Document" button
SummarizerRun(uploaded_file, pressed, generation) ==
    LET extracted == extract_text_from_file(uploaded_file)
        document_text == extracted.returned
        offered == document_text \notin {None, ""}
    IN  [run |-> "summarizer", file |-> uploaded_file, extracted |-> extracted,
         offered |-> offered,
         summary |-> IF offered /\ pressed
                     THEN get_summary_response(loadedModel, document_text,
                                               generation).returned
                     ELSE None]

SummarizerInit ==
    /\ GatewayAtRest
    /\ SessionAtRest
    /\ loadedModel \in LoadedModels
    /\ fnCall = [fn |-> "none"]
    /\ docRun = [run |-> "none"]
    /\ FeedbackAtRest

UploadFile ==
    /\ \E uploaded_file \in UploadedFiles :
          docRun' = SummarizerRun(uploaded_file, FALSE, [text |-> "", raises |-> FALSE])
    /\ UNCHANGED <<gatewayVars, chatVars, fnCall, feedbackVars>>

PressSummarize ==
    /\ docRun.run = "summarizer"
    /\ docRun.offered
    /\ \E generation \in Generations :
          docRun' = SummarizerRun(docRun.file, TRUE, generation)
    /\ UNCHANGED <<gatewayVars, chatVars, fnCall, feedbackVars>>

SummarizerNext == UploadFile \/ PressSummarize

SummarizerSpec == SummarizerInit /\ [][SummarizerNext]_vars

\* the page texts that count, in page order
RECURSIVE Joined(_)
Joined(texts) == IF texts = <<>> THEN "" ELSE Head(texts) \o Joined(Tail(texts))

IsText(t) == t \notin {None, "", PageFails}
PdfFails(f) == ~f.opens \/ \E i \in 1..Len(f.pages) : f.pages[i] = PageFails

(***************************************************************************)
(* C15: extract_text_from_file never raises.  For a text/plain file it     *)
(* returns the decoded text; for a PDF the non-empty page texts joined in  *)
(* page order, or None with the failure reported when reading fails; for   *)
(* any other type None.  The page offers no summary when the result is     *)
(* None or empty.                                                          *)
(***************************************************************************)
C15_ExtractedTextOrAbsent ==
    docRun.run = "summarizer" =>
        LET f == docRun.file
            r == docRun.extracted
        IN  /\ ~r.raised
            /\ f.type = "text/plain" =>
                  /\ r.returned = Joined(SelectSeq(f.value, LAMBDA b : b # InvalidByte))
                  /\ r.reported = 0
            /\ (f.type = "application/pdf" /\ PdfFails(f)) =>
                  r.returned = None /\ r.reported = 1
            /\ (f.type = "application/pdf" /\ ~PdfFails(f)) =>
                  r.returned = Joined(SelectSeq(f.pages, IsText))
            /\ f.type \notin {"text/plain", "application/pdf"} => r.returned = None
            /\ r.returned \in {None, ""} => ~docRun.offered /\ docRun.summary = None

\* a PDF whose second page fails after the first gave text: nothing is offered
C15_Witness ==
    /\ docRun.run = "summarizer"
    /\ docRun.file.type = "application/pdf"
    /\ docRun.file.opens
    /\ docRun.file.pages = <<"One. ", PageFails>>
    /\ docRun.extracted.returned = None
    /\ docRun.extracted.reported = 1
    /\ ~docRun.offered

(***************************************************************************)
(* The Citizen Feedback page.  mongo is what st.cache_resource holds for   *)
(* get_mongo_collection: "unconnected" until its first call, then the      *)
(* collection or None.  store is what the collection contains.             *)
(***************************************************************************)
MaxStored == 1       \* records the collection takes
MinDescriptionLength == 10

Collection == "feedback_collection"

Forms ==
    [name : {"", "Asha"}, contact : {"", "asha@example.org"},
     category : {"General Feedback", "Energy"}, location : {"", "Main Street"},
     description : {"", "Pothole!!", "Pothole!!!"}]

InsertOutcomes == {"inserted", "raises"}

\* the cached call: the connection is attempted on the first call only
get_mongo_collection(cache, connects) ==
    IF cache # "unconnected"
    THEN [returned |-> cache, connectAttempts |-> 0, reported |-> 0]
    ELSE IF connects
    THEN [returned |-> Collection, connectAttempts |-> 1, reported |-> 0]
    ELSE [returned |-> None, connectAttempts |-> 1, reported |-> 1]

\* faulty variant: a failed insert is reported but counted as saved
save_feedback_to_mongo_TrueOnError(feedback_data, collection, outcome) ==
    IF collection # None
    THEN [returned |-> TRUE, attempts |-> <<feedback_data>>,
          reported |-> IF outcome = "inserted" THEN 0 ELSE 1, raised |-> FALSE]
    ELSE [returned |-> FALSE, attempts |-> <<>>, reported |-> 0, raised |-> FALSE]

\* attempts: the records passed to insert_one
save_feedback_to_mongo(feedback_data, collection, outcome) ==
    IF collection # None
    THEN IF outcome = "inserted"
         THEN [returned |-> TRUE, attempts |-> <<feedback_data>>, reported |-> 0,
               raised |-> FALSE]
         ELSE [returned |-> FALSE, attempts |-> <<feedback_data>>, reported |-> 1,
               raised |-> FALSE]
    ELSE [returned |-> FALSE, attempts |-> <<>>, reported |-> 0, raised |-> FALSE]

NotSaved == [returned |-> FALSE, attempts |-> <<>>, reported |-> 0, raised |-> FALSE]

feedback_data(form) ==
    [Timestamp |-> "Timestamp.now",
     Name |-> IF form.name # "" THEN form.name ELSE "Anonymous",
     Contact |-> IF form.contact # "" THEN form.contact ELSE "N/A",
     Category |-> form.category,
     Location |-> IF form.location # "" THEN form.location ELSE "N/A",
     Description |-> form.description]

\* faulty variant: the collection is fetched before the description is looked at
FeedbackRun_ConnectFirst(form, connects, outcome) ==
    LET got == get_mongo_collection(mongo, connects)
    IN  IF form.description = "" \/ Len(form.description) < MinDescriptionLength
        THEN [run |-> "submitted", form |-> form, shown |-> "validation error",
              record |-> None, collection |-> got.returned,
              connectAttempts |-> got.connectAttempts, saveCalls |-> 0,
              outcome |-> outcome, save |-> NotSaved]
        ELSE LET save == save_feedback_to_mongo(feedback_data(form), got.returned, outcome)
             IN  [run |-> "submitted", form |-> form,
                  shown |-> IF save.returned THEN "success" ELSE "none",
                  record |-> feedback_data(form), collection |-> got.returned,
                  connectAttempts |-> got.connectAttempts, saveCalls |-> 1,
                  outcome |-> outcome, save |-> save]

\* the run of the page started by "Submit Feedback"
FeedbackRun(form, connects, outcome) ==
    IF form.description = "" \/ Len(form.description) < MinDescriptionLength
    THEN [run |-> "submitted", form |-> form, shown |-> "validation error",
          record |-> None, collection |-> mongo, connectAttempts |-> 0,
          saveCalls |-> 0, outcome |-> outcome, save |-> NotSaved]
    ELSE LET got == get_mongo_collection(mongo, connects)
             save == save_feedback_to_mongo(feedback_data(form), got.returned, outcome)
         IN  [run |-> "submitted", form |-> form,
              shown |-> IF save.returned THEN "success" ELSE "none",
              record |-> feedback_data(form), collection |-> got.returned,
              connectAttempts |-> got.connectAttempts, saveCalls |-> 1,
              outcome |-> outcome, save |-> save]

FeedbackInit ==
    /\ GatewayAtRest
    /\ SessionAtRest
    /\ loadedModel \in LoadedModels
    /\ fnCall = [fn |-> "none"]
    /\ docRun = [run |-> "none"]
    /\ FeedbackAtRest

\* the page is drawn with nothing submitted
OpenFeedbackPage ==
    /\ fbRun' = [run |-> "opened"]
    /\ UNCHANGED <<gatewayVars, chatVars, fnCall, docRun, mongo, store>>

SubmitFeedback ==
    /\ Len(store) < MaxStored
    /\ \E form \in Forms, connects \in BOOLEAN, outcome \in InsertOutcomes :
          LET r == FeedbackRun(form, connects, outcome)
          IN  /\ fbRun' = r
              /\ mongo' = IF r.connectAttempts = 1 THEN r.collection ELSE mongo
              /\ store' = IF r.save.attempts # <<>> /\ r.outcome = "inserted"
                          THEN store \o r.save.attempts ELSE store
    /\ UNCHANGED <<gatewayVars, chatVars, fnCall, docRun>>

FeedbackNext == OpenFeedbackPage \/ SubmitFeedback

FeedbackSpec == FeedbackInit /\ [][FeedbackNext]_vars

(***************************************************************************)
(* C16: save_feedback_to_mongo never raises.  It returns True exactly when *)
(* one insert of the given record completed; with no collection it         *)
(* attempts no insert and returns False; when the insert raises it returns *)
(* False.  The success message is shown only when it returned True.        *)
(***************************************************************************)
C16_SaveReportsOutcome ==
    fbRun.run = "submitted" =>
        /\ ~fbRun.save.raised
        /\ fbRun.shown = "success" => fbRun.saveCalls = 1 /\ fbRun.save.returned
        /\ fbRun.saveCalls = 1 =>
              /\ fbRun.save.returned <=>
                    /\ fbRun.save.attempts = <<fbRun.record>>
                    /\ fbRun.outcome = "inserted"
              /\ fbRun.collection = None =>
                    fbRun.save.attempts = <<>> /\ ~fbRun.save.returned
              /\ (fbRun.collection # None /\ fbRun.outcome = "raises") =>
                    ~fbRun.save.returned /\ fbRun.save.reported = 1

\* the insert raised: reported, not saved, no success message
C16_Witness ==
    /\ fbRun.run = "submitted"
    /\ fbRun.collection = Collection
    /\ fbRun.outcome = "raises"
    /\ fbRun.save.attempts = <<fbRun.record>>
    /\ ~fbRun.save.returned
    /\ fbRun.shown = "none"
    /\ store = <<>>

TooShort(description) == description = "" \/ Len(description) < 10

\* the record the form stands for
Entered(form) ==
    [Timestamp |-> "Timestamp.now",
     Name |-> IF form.name = "" THEN "Anonymous" ELSE form.name,
     Contact |-> IF form.contact = "" THEN "N/A" ELSE form.contact,
     Category |-> form.category,
     Location |-> IF form.location = "" THEN "N/A" ELSE form.location,
     Description |-> form.description]

Rejected ==
    /\ fbRun'.shown = "validation error"
    /\ fbRun'.connectAttempts = 0
    /\ fbRun'.saveCalls = 0
    /\ fbRun'.save.attempts = <<>>
    /\ mongo' = mongo
    /\ store' = store

(***************************************************************************)
(* C18, as stated: a submitted form whose description is empty or shorter  *)
(* than 10 characters is rejected with a validation error, with no insert  *)
(* and no connection attempt; for any other form exactly one record, with  *)
(* the defaults filled in, is passed to the collection's insert.           *)
(***************************************************************************)
C18_AsStated ==
    [][fbRun'.run = "submitted" =>
          IF TooShort(fbRun'.form.description)
          THEN Rejected
          ELSE fbRun'.save.attempts = <<Entered(fbRun'.form)>>]_vars

(***************************************************************************)
(* C18, amended: a submitted form whose description is empty or shorter    *)
(* than 10 characters is rejected with a validation error, with no insert  *)
(* and no connection attempt; for any other form exactly one record, with  *)
(* the defaults filled in, is handed to save_feedback_to_mongo, which      *)
(* passes it to one insert when the collection is available and to none    *)
(* when the connection failed; the store gains that record or nothing.     *)
(***************************************************************************)
C18_SubmissionGuard ==
    [][fbRun'.run = "submitted" =>
          IF TooShort(fbRun'.form.description)
          THEN Rejected
          ELSE /\ fbRun'.saveCalls = 1
               /\ fbRun'.record = Entered(fbRun'.form)
               /\ fbRun'.shown # "validation error"
               /\ fbRun'.collection # None =>
                     fbRun'.save.attempts = <<Entered(fbRun'.form)>>
               /\ fbRun'.collection = None => fbRun'.save.attempts = <<>>
               /\ store' \in {store, Append(store, Entered(fbRun'.form))}
               /\ fbRun'.save.returned <=> store' # store]_vars

\* a form with only a ten-character description was stored with the defaults
C18_Witness ==
    /\ fbRun.run = "submitted"
    /\ fbRun.form.name = "" /\ fbRun.form.contact = "" /\ fbRun.form.location = ""
    /\ Len(fbRun.form.description) = 10
    /\ fbRun.save.returned
    /\ store = <<[Timestamp |-> "Timestamp.now", Name |-> "Anonymous",
                  Contact |-> "N/A", Category |-> "Energy", Location |-> "N/A",
                  Description |-> "Pothole!!!"]>>

(***************************************************************************)
(* The chat session.  Every user event starts one run of the script from   *)
(* its top: the sidebar (navigation radio, Clear Chat History, the example *)
(* prompt buttons), then the page the radio names.  screen is what the     *)
(* last run drew, and so what the user can act on next; a run ended by an  *)
(* exception draws nothing after the statement that raised.                *)
(***************************************************************************)
MaxMessages == 4     \* messages of the chat history

ChatAssistant == "Chat Assistant"
Pages == {"Home", "Policy Summarizer", ChatAssistant, "Citizen Feedback"}

example_prompts ==
    <<"What are the key components of a smart city?",
      "How can IoT improve waste management?",
      "Suggest some green infrastructure policies for urban areas.">>

TypedPrompts == {"What is a smart grid?"}

ChatStreams ==
    { [chunks |-> <<"Smart ", "cities">>, raises |-> FALSE],
      [chunks |-> <<"Smart ">>, raises |-> TRUE] }

UserMessage(content) == [role |-> "user", content |-> content]
AssistantMessage(content) == [role |-> "assistant", content |-> content]

\* st.write_stream: the chunks written, joined
write_stream(yielded) == Joined(yielded)

\* the Chat Assistant page: history, chat_input, then the reply when the last
\* message is the user's
ChatPage(msgs, prompt, stream) ==
    LET asked == IF prompt # None THEN Append(msgs, UserMessage(prompt)) ELSE msgs
    IN  IF asked # <<>> /\ asked[Len(asked)].role = "user"
        THEN Append(asked, AssistantMessage(
                 write_stream(get_model_response(loadedModel, asked, stream).yielded)))
        ELSE asked

\* a run of the script that reaches its end, with no sidebar button pressed
CompletedRun(event, msgs, pg, prompt, stream) ==
    /\ session_messages' = IF pg = ChatAssistant THEN ChatPage(msgs, prompt, stream)
                           ELSE msgs
    /\ page' = pg
    /\ screen' = [sidebar |-> TRUE, chatInput |-> pg = ChatAssistant,
                  examples |-> Len(example_prompts)]
    /\ lastEvent' = [event |-> event, from |-> page, completed |-> TRUE]

ChatInit ==
    /\ GatewayAtRest
    /\ SessionAtRest
    /\ loadedModel \in LoadedModels
    /\ fnCall = [fn |-> "none"]
    /\ docRun = [run |-> "none"]
    /\ FeedbackAtRest

\* the first run of a session
OpenApp ==
    /\ lastEvent.event = "none"
    /\ \E stream \in ChatStreams : CompletedRun("open", <<>>, "Home", None, stream)
    /\ UNCHANGED <<gatewayVars, loadedModel, fnCall, docRun, feedbackVars>>

Navigate ==
    /\ screen.sidebar
    /\ \E pg \in Pages \ {page}, stream \in ChatStreams :
          CompletedRun("navigate", session_messages, pg, None, stream)
    /\ UNCHANGED <<gatewayVars, loadedModel, fnCall, docRun, feedbackVars>>

\* a city or role is selected: the script runs again with nothing changed
SelectOther ==
    /\ screen.sidebar
    /\ \E stream \in ChatStreams :
          CompletedRun("select", session_messages, page, None, stream)
    /\ UNCHANGED <<gatewayVars, loadedModel, fnCall, docRun, feedbackVars>>

\* the history is emptied and st.rerun() runs the script again
ClearChatHistory ==
    /\ screen.sidebar
    /\ \E stream \in ChatStreams : CompletedRun("clear", <<>>, page, None, stream)
    /\ UNCHANGED <<gatewayVars, loadedModel, fnCall, docRun, feedbackVars>>

TypeChatInput ==
    /\ screen.chatInput
    /\ Len(session_messages) + 2 <= MaxMessages
    /\ \E prompt \in TypedPrompts, stream \in ChatStreams :
          CompletedRun("chat_input", session_messages, page, prompt, stream)
    /\ UNCHANGED <<gatewayVars, loadedModel, fnCall, docRun, feedbackVars>>

\* The prompt is appended; then navigation_choice is assigned, which
\* Streamlit refuses for the key of a widget already drawn in this run (the
\* radio): StreamlitAPIException ends the run before st.rerun() and before
\* the later buttons and the page are drawn.
PressExample ==
    /\ Len(session_messages) + 2 <= MaxMessages
    /\ \E i \in 1..screen.examples :
          /\ session_messages' = Append(session_messages, UserMessage(example_prompts[i]))
          /\ screen' = [sidebar |-> TRUE, chatInput |-> FALSE, examples |-> i]
    /\ lastEvent' = [event |-> "example", from |-> page, completed |-> FALSE]
    /\ UNCHANGED <<gatewayVars, page, loadedModel, fnCall, docRun, feedbackVars>>

ChatNext ==
    \/ OpenApp
    \/ Navigate
    \/ SelectOther
    \/ ClearChatHistory
    \/ TypeChatInput
    \/ PressExample

ChatSpec == ChatInit /\ [][ChatNext]_vars

Alternates(msgs) ==
    /\ Len(msgs) % 2 = 0
    /\ \A i \in 1..Len(msgs) :
          msgs[i].role = IF i % 2 = 1 THEN "user" ELSE "assistant"

(***************************************************************************)
(* C17: whenever a run that drew the Chat Assistant page has completed,    *)
(* the history is a sequence of user/assistant pairs; after an example     *)
(* prompt pressed on another page the navigation is on the Chat Assistant  *)
(* page; after Clear Chat History the history is empty.                    *)
(***************************************************************************)
C17_ChatHistoryInvariant ==
    /\ (lastEvent.completed /\ page = ChatAssistant) => Alternates(session_messages)
    /\ (lastEvent.event = "example" /\ lastEvent.from # ChatAssistant) =>
          page = ChatAssistant
    /\ lastEvent.event = "clear" => session_messages = <<>>

====
